---- MODULE Spec2Model ----
(***************************************************************************)
(* State-machine model of the OJT record service (src/server.js,           *)
(* src/Student.js): the Express handlers for login, register, profile      *)
(* get/list/update/delete, password reset and the admin bootstrap, acting  *)
(* on the two Mongoose collections User and Student.                       *)
(*                                                                         *)
(* Every handler is an async function: each `await` on a store call is a   *)
(* point where another request may run, so a handler is a sequence of      *)
(* steps, one per store call.  Spec, SpecProfile and SpecLink run one      *)
(* request at a time (the steps of a handler then run back to back) and    *)
(* differ in the inputs the requests are drawn from; SpecSkills registers  *)
(* over every short skills string; SpecFault adds store calls that reject; *)
(* SpecConc interleaves the steps of concurrent requests, and SpecWindow   *)
(* those of one writing request with readers.  models/User.js is not part  *)
(* of the sources at hand: the User collection is a plain document         *)
(* collection with no uniqueness constraint, as the service's              *)
(* specification describes it.                                             *)
(***************************************************************************)
EXTENDS Integers, Sequences, FiniteSets, TLC

\* ---------------------------------------------------------------- bounds
MaxReq  == 2      \* request slots (requests in flight in SpecConc)
MaxOid  == 4      \* ObjectIds the stores hand out
MaxTime == 1      \* largest value of the millisecond clock
MaxSalt == 1      \* bcrypt salts
MaxLen  == 3      \* length of the skills strings that are enumerated

Slots == 1..MaxReq
Salts == 1..MaxSalt

\* ------------------------------------------------------ program constants
AdminEmail    == "admin@ojt.com"
AdminPassword == "admin123"
BcryptRounds  == 10
TokenTtl      == 604800          \* '7d' in seconds
JwtSecret     == "JWT_SECRET"

Emails    == {"a@x.com", AdminEmail}
Passwords == {"p1", "p2"}

\* ------------------------------------------------------------ JS values
Undefined == "undefined"         \* a property that is absent from an object

\* ------------------------------------------------ bcryptjs (hash, compare)
\* A digest is bound to the salt and the cost it was made with; it is
\* compared by re-hashing the candidate with the digest's own salt.
BcryptHash(pw, rounds, salt) ==
    [alg |-> "bcrypt", rounds |-> rounds, salt |-> salt, of |-> pw]

BcryptCompare(pw, hash) ==
    hash = BcryptHash(pw, hash.rounds, hash.salt)

NoHash == [alg |-> "none", rounds |-> 0, salt |-> 0, of |-> ""]

\* ----------------------------------------------------- jsonwebtoken.sign
\* payload + iat/exp in seconds, signed with the process-wide secret
JwtSignature(payload, secret) == [key |-> secret, uid |-> payload.userId,
                                  r |-> payload.role, e |-> payload.exp]

JwtSign(claims, secret, ms) ==
    LET iat     == ms \div 1000
        payload == [userId |-> claims.userId, role |-> claims.role,
                    iat |-> iat, exp |-> iat + TokenTtl]
    IN  [payload |-> payload, sig |-> JwtSignature(payload, secret)]

NoToken == [payload |-> [userId |-> 0, role |-> "", iat |-> 0, exp |-> 0],
            sig |-> [key |-> "", uid |-> 0, r |-> "", e |-> 0]]

\* --------------------------------------------------------- User documents
NoUser == [_id |-> 0, email |-> "", password |-> NoHash, role |-> ""]

UserDoc(id, email, hash, role) ==
    [_id |-> id, email |-> email, password |-> hash, role |-> role]

UserView(u) == [id |-> u._id, email |-> u.email, role |-> u.role]

NoView == [id |-> 0, email |-> "", role |-> ""]

\* ------------------------------------------------ studentSchema (Student.js)
\* paths of type String that the schema marks required: true
RequiredPaths == {"email", "fullName", "department", "school", "course",
                  "yearLevel", "contactNumber", "address", "startDate",
                  "endDate"}

\* every path of the schema
SchemaPaths == RequiredPaths \cup {"userId", "project", "skills",
                                   "createdAt", "updatedAt"}

BlankVals ==
    [userId |-> 0, email |-> Undefined, fullName |-> Undefined,
     department |-> Undefined, project |-> Undefined, skills |-> <<>>,
     school |-> Undefined, course |-> Undefined, yearLevel |-> Undefined,
     contactNumber |-> Undefined, address |-> Undefined,
     startDate |-> Undefined, endDate |-> Undefined,
     createdAt |-> 0, updatedAt |-> 0, nickname |-> Undefined]

\* A JSON object: the keys it has and their values (BlankVals elsewhere)
NoBody == [fields |-> {}, vals |-> BlankVals]

Has(body, k) == k \in body.fields

\* obj.k for a string-valued key: undefined when the key is absent
Get(body, k) == IF Has(body, k) THEN body.vals[k] ELSE Undefined

\* a Student document: _id and the schema's paths
StudentDoc(id, vals) ==
    [k \in SchemaPaths \cup {"_id"} |-> IF k = "_id" THEN id ELSE vals[k]]

NoStudent == StudentDoc(0, BlankVals)

\* a required String path rejects undefined, null and ''
StudentValid(doc) ==
    /\ doc.userId # 0
    /\ \A p \in RequiredPaths : doc[p] # Undefined /\ doc[p] # ""

\* ----------------------------------------- skills: split / trim / filter
\* a string is a sequence of one-character strings; of the white space
\* that trim() strips, the inputs use the blank
IsSpace(c) == c = " "

RECURSIVE SplitComma(_)
SplitComma(s) ==
    IF \A i \in 1..Len(s) : s[i] # ","
    THEN <<s>>
    ELSE LET i == CHOOSE k \in 1..Len(s) :
                     s[k] = "," /\ \A j \in 1..(k-1) : s[j] # ","
         IN  <<SubSeq(s, 1, i-1)>> \o SplitComma(SubSeq(s, i+1, Len(s)))

RECURSIVE TrimStart(_)
TrimStart(s) ==
    IF s # <<>> /\ IsSpace(Head(s)) THEN TrimStart(Tail(s)) ELSE s

RECURSIVE TrimEnd(_)
TrimEnd(s) ==
    IF s # <<>> /\ IsSpace(s[Len(s)])
    THEN TrimEnd(SubSeq(s, 1, Len(s)-1)) ELSE s

Trim(s) == TrimEnd(TrimStart(s))

MapTrim(pieces) == [i \in 1..Len(pieces) |-> Trim(pieces[i])]

FilterNonEmpty(pieces) == SelectSeq(pieces, LAMBDA x : x # <<>>)

\* (mutant) the pieces are not trimmed
ParseSkillsNoTrim(s) == FilterNonEmpty(SplitComma(s))

\* studentData.skills.split(',').map(s => s.trim()).filter(s => s)
ParseSkills(s) == FilterNonEmpty(MapTrim(SplitComma(s)))

\* ------------------------------------------------------- request inputs
\* "go, c" and ",a " as character sequences
SkillsGoC   == <<"g", "o", ",", " ", "c">>
SkillsPadA  == <<",", "a", " ">>

FullProfile ==
    [fields |-> {"fullName", "department", "project", "skills", "school",
                 "course", "yearLevel", "contactNumber", "address",
                 "startDate", "endDate"},
     vals   |-> [BlankVals EXCEPT
                   !.fullName = "Ann", !.department = "IT",
                   !.project = "Alpha", !.skills = SkillsGoC,
                   !.school = "S", !.course = "C", !.yearLevel = "3",
                   !.contactNumber = "09", !.address = "A",
                   !.startDate = "2024-01-01", !.endDate = "2024-06-01"]]

Without(body, k) ==
    [fields |-> body.fields \ {k},
     vals   |-> [body.vals EXCEPT ![k] = BlankVals[k]]]

With(body, k, v) ==
    [fields |-> body.fields \cup {k},
     vals   |-> [body.vals EXCEPT ![k] = v]]

\* studentData of register requests: complete ones, and ones that lack a
\* required field or the skills string
HrProfile ==
    With(With(FullProfile, "department", "HR"), "skills", SkillsPadA)

ValidProfiles == { FullProfile, HrProfile }

InvalidProfiles ==
    { Without(FullProfile, "fullName"), Without(FullProfile, "skills") }

\* the skills strings of up to MaxLen characters over a letter, the comma
\* and the blank, and "go, rust, c"
SkillChars == {"a", ",", " "}

SkillsExample == <<"g", "o", ",", " ", "r", "u", "s", "t", ",", " ", "c">>

SkillInputs ==
    UNION { [1..n -> SkillChars] : n \in 0..MaxLen } \cup {SkillsExample}

SkillProfiles == { With(FullProfile, "skills", s) : s \in SkillInputs }

\* req.body of update requests
FieldBodies ==
    { With(NoBody, "department", "HR"),
      With(With(NoBody, "nickname", "N"), "updatedAt", 0),
      With(NoBody, "createdAt", MaxTime + 1) }

LinkBodies == { With(NoBody, "userId", 1) }

\* ------------------------------------------------------- HTTP responses
Response(status, success, error) ==
    [status |-> status, success |-> success, error |-> error,
     role |-> "", token |-> NoToken, user |-> NoView,
     student |-> NoStudent, students |-> <<>>]

NoResp == Response(0, FALSE, "")

\* --------------------------------------------------------------- state
VARIABLES
    users,       \* the User collection: a set of documents
    students,    \* the Student collection: a set of documents
    nextOid,     \* next ObjectId to hand out
    now,         \* Date.now(), in milliseconds
    req,         \* per slot: the request being handled, or its response
    last,        \* the request that finished in the slot before this one
    registered,  \* history: accounts made by a successful register and not
                 \* reset or deleted since
    tried,       \* history: emails of the register calls that have finished
    born,        \* history: for each stored profile, <<_id, clock reading
                 \* when it was created>>
    orphaned,    \* history: email and _id of the accounts whose register
                 \* failed after User.create
    seen         \* history: what requests were answered between the two
                 \* store writes of another request

vars == <<users, students, nextOid, now, req, last, registered, tried, born,
          orphaned, seen>>

Idle ==
    [op |-> "none", pc |-> "idle", email |-> "", password |-> "",
     body |-> NoBody, id |-> 0, user |-> NoUser, student |-> NoStudent,
     cause |-> "", resp |-> NoResp]

\* what is kept of a finished request: its inputs and answer, the hash a
\* reset replaced, the account a delete removed
Summary(q) ==
    [op |-> q.op, email |-> q.email, password |-> q.password, id |-> q.id,
     cause |-> q.cause, status |-> q.resp.status,
     success |-> q.resp.success, error |-> q.resp.error,
     hash |-> IF q.op = "reset" THEN q.user.password ELSE NoHash,
     userId |-> q.student.userId, account |-> q.user._id]

Init ==
    /\ users = {}
    /\ students = {}
    /\ nextOid = 1
    /\ now = 0
    /\ req = [r \in Slots |-> Idle]
    /\ last = Summary(Idle)
    /\ registered = {}
    /\ tried = {}
    /\ born = {}
    /\ orphaned = {}
    /\ seen = {}

Free(r) == req[r].pc \in {"idle", "done"}

Quiet == \A r \in Slots : Free(r)

\* ObjectIds the requests in flight may still ask for
Need(q) ==
    IF q.pc \in {"registerFind", "registerCreateUser"} THEN 2
    ELSE IF q.pc \in {"registerCreateStudent", "adminFind", "adminCreate"}
    THEN 1 ELSE 0

RECURSIVE Reserved(_)
Reserved(n) == IF n = 0 THEN 0 ELSE Need(req[n]) + Reserved(n - 1)

OidsLeft(k) == nextOid - 1 + Reserved(MaxReq) + k <= MaxOid

\* a request arrives in slot r
Begin(r, q, track) ==
    /\ Free(r)
    /\ req' = [req EXCEPT ![r] = q]
    /\ last' = IF req[r].op \in track THEN Summary(req[r])
                ELSE Summary(Idle)
    /\ UNCHANGED <<users, students, nextOid, now, registered, tried, born,
                   orphaned, seen>>

\* the handler of slot r answers
Finish(r, cause, resp) ==
    req' = [req EXCEPT ![r].pc = "done", ![r].cause = cause,
                       ![r].resp = resp]

\* ------------------------------------------------------ Mongoose queries
\* User.findOne({ email }) answers one of these, or null when there is none
UsersByEmail(e) == { u \in users : u.email = e }

\* Student.findOne({ userId })
StudentsByUserId(id) == { d \in students : d.userId = id }

\* Student.findById(id)
StudentsById(id) == { d \in students : d._id = id }

\* some register has created the account with this _id and not yet its
\* profile (between lines 96 and 102)
BetweenRegister(id) ==
    \E s \in Slots :
        req[s].pc = "registerCreateStudent" /\ req[s].user._id = id

\* some delete has removed the account of profile d and not yet d (between
\* lines 189 and 190)
BetweenDelete(d) ==
    /\ \E s \in Slots : req[s].pc = "deleteStudent" /\ req[s].id = d._id
    /\ \A u \in users : u._id # d.userId

\* ---------------------------------------------------- POST /api/login
StartLogin(r, e, p, track) ==
    Begin(r, [Idle EXCEPT !.op = "login", !.pc = "loginFind",
                          !.email = e, !.password = p], track)

InvalidCredentials == Response(401, FALSE, "Invalid credentials")

\* (mutant) an unknown email is reported as such
LoginFindTellsUnknown(r) ==
    /\ req[r].pc = "loginFind"
    /\ IF UsersByEmail(req[r].email) = {}
       THEN Finish(r, "NoSuchEmail", Response(404, FALSE, "User not found"))
       ELSE \E u \in UsersByEmail(req[r].email) :
               req' = [req EXCEPT ![r].pc = "loginCompare", ![r].user = u]
    /\ UNCHANGED <<users, students, nextOid, now, last, registered, tried,
                   born, orphaned, seen>>

LoginFind(r) ==
    /\ req[r].pc = "loginFind"
    /\ IF UsersByEmail(req[r].email) = {}
       THEN Finish(r, "NoSuchEmail", InvalidCredentials)
       ELSE \E u \in UsersByEmail(req[r].email) :
               req' = [req EXCEPT ![r].pc = "loginCompare", ![r].user = u]
    /\ UNCHANGED <<users, students, nextOid, now, last, registered, tried,
                   born, orphaned, seen>>

LoginOk(u, token) ==
    [Response(200, TRUE, "") EXCEPT
        !.role = u.role, !.token = token, !.user = UserView(u)]

\* (mutant) the token is signed with a hard-coded role
LoginCompareFixedRole(r) ==
    /\ req[r].pc = "loginCompare"
    /\ LET u == req[r].user IN
       IF ~BcryptCompare(req[r].password, u.password)
       THEN Finish(r, "WrongPassword", InvalidCredentials)
       ELSE Finish(r, "OK",
                   LoginOk(u, JwtSign([userId |-> u._id, role |-> "admin"],
                                      JwtSecret, now)))
    /\ UNCHANGED <<users, students, nextOid, now, last, registered, tried,
                   born, orphaned, seen>>

LoginCompare(r) ==
    /\ req[r].pc = "loginCompare"
    /\ LET u == req[r].user IN
       IF ~BcryptCompare(req[r].password, u.password)
       THEN /\ Finish(r, "WrongPassword", InvalidCredentials)
            /\ seen' = seen
       ELSE /\ Finish(r, "OK",
                      LoginOk(u, JwtSign([userId |-> u._id, role |-> u.role],
                                         JwtSecret, now)))
            /\ seen' = IF BetweenRegister(u._id)
                       THEN seen \cup {"LoginBetweenRegister"} ELSE seen
    /\ UNCHANGED <<users, students, nextOid, now, last, registered, tried,
                   born, orphaned>>

\* -------------------------------------------------- POST /api/register
StartRegister(r, e, p, sd, track) ==
    /\ OidsLeft(2)
    /\ Begin(r, [Idle EXCEPT !.op = "register", !.pc = "registerFind",
                             !.email = e, !.password = p, !.body = sd],
             track)

EmailTaken == Response(400, FALSE, "Email already registered")

\* (mutant) no check that the email is free
RegisterFindNoCheck(r) ==
    /\ req[r].pc = "registerFind"
    /\ req' = [req EXCEPT ![r].pc = "registerCreateUser"]
    /\ UNCHANGED <<users, students, nextOid, now, last, registered, tried,
                   born, orphaned, seen>>

RegisterFind(r) ==
    /\ req[r].pc = "registerFind"
    /\ IF UsersByEmail(req[r].email) # {}
       THEN /\ Finish(r, "EmailTaken", EmailTaken)
            /\ tried' = tried \cup {req[r].email}
       ELSE /\ req' = [req EXCEPT ![r].pc = "registerCreateUser"]
            /\ tried' = tried
    /\ UNCHANGED <<users, students, nextOid, now, last, registered, born,
                   orphaned, seen>>

\* User.create(doc): the collection gains the document
UserCreate(coll, doc) == coll \cup {doc}

RegisterCreateUser(r, salts) ==
    /\ req[r].pc = "registerCreateUser"
    /\ \E salt \in salts :
          LET u == UserDoc(nextOid, req[r].email,
                           BcryptHash(req[r].password, BcryptRounds, salt),
                           "student")
          IN  /\ users' = UserCreate(users, u)
              /\ req' = [req EXCEPT ![r].pc = "registerCreateStudent",
                                    ![r].user = u]
    /\ nextOid' = nextOid + 1
    /\ UNCHANGED <<students, now, last, registered, tried, born, orphaned,
                   seen>>

\* the object handed to Student.create (lines 102-116)
StudentFields(u, e, sd) ==
    [BlankVals EXCEPT
       !.userId = u._id,
       !.email = e,
       !.fullName = Get(sd, "fullName"),
       !.department = Get(sd, "department"),
       !.project = IF Get(sd, "department") = "IT"
                   THEN Get(sd, "project") ELSE Undefined,
       !.skills = ParseSkills(sd.vals.skills),
       !.school = Get(sd, "school"),
       !.course = Get(sd, "course"),
       !.yearLevel = Get(sd, "yearLevel"),
       !.contactNumber = Get(sd, "contactNumber"),
       !.address = Get(sd, "address"),
       !.startDate = Get(sd, "startDate"),
       !.endDate = Get(sd, "endDate")]

\* Student.create: both dates default to Date.now, each read on its own
StudentNew(id, fields, t1, t2) ==
    StudentDoc(id, [fields EXCEPT !.createdAt = t1, !.updatedAt = t2])

RegistrationFailed == Response(500, FALSE, "Registration failed")

RegisterOk(u, token) ==
    [Response(200, TRUE, "") EXCEPT !.token = token, !.user = UserView(u)]

\* the account that the register request q has created
Orphan(q) == [email |-> q.email, userId |-> q.user._id]

RegisterCreateStudent(r, maxT) ==
    /\ req[r].pc = "registerCreateStudent"
    /\ LET u  == req[r].user
           sd == req[r].body
       IN
       IF ~Has(sd, "skills")
       THEN \* undefined.split: TypeError, caught at line 133
            /\ Finish(r, "TypeError", RegistrationFailed)
            /\ orphaned' = orphaned \cup {Orphan(req[r])}
            /\ UNCHANGED <<students, nextOid, now, registered, born>>
       ELSE IF ~StudentValid(StudentFields(u, req[r].email, sd))
       THEN \* ValidationError, caught at line 133
            /\ Finish(r, "ValidationFailure", RegistrationFailed)
            /\ orphaned' = orphaned \cup {Orphan(req[r])}
            /\ UNCHANGED <<students, nextOid, now, registered, born>>
       ELSE \E t1 \in now..maxT : \E t2 \in t1..maxT :
            LET token == JwtSign([userId |-> u._id, role |-> u.role],
                                 JwtSecret, t2)
            IN
            /\ students' = students \cup
                 {StudentNew(nextOid, StudentFields(u, req[r].email, sd),
                             t1, t2)}
            /\ born' = born \cup {<<nextOid, t1>>}
            /\ nextOid' = nextOid + 1
            /\ now' = t2
            /\ Finish(r, "OK", RegisterOk(u, token))
            /\ registered' = registered \cup
                 {[email |-> req[r].email, password |-> req[r].password,
                   userId |-> token.payload.userId,
                   role |-> token.payload.role]}
            /\ orphaned' = orphaned
    /\ tried' = tried \cup {req[r].email}
    /\ UNCHANGED <<users, last, seen>>

\* ---------------------------------------------- GET /api/student/:userId
StartGet(r, id, track) ==
    Begin(r, [Idle EXCEPT !.op = "get", !.pc = "getFind", !.id = id], track)

StudentNotFound == Response(404, FALSE, "Student not found")

StudentOk(d) == [Response(200, TRUE, "") EXCEPT !.student = d]

GetFind(r) ==
    /\ req[r].pc = "getFind"
    /\ IF StudentsByUserId(req[r].id) = {}
       THEN /\ Finish(r, "NotFound", StudentNotFound)
            /\ seen' = IF BetweenRegister(req[r].id)
                       THEN seen \cup {"NotFoundBetweenRegister"} ELSE seen
       ELSE \E d \in StudentsByUserId(req[r].id) :
               /\ Finish(r, "OK", StudentOk(d))
               /\ seen' = IF BetweenDelete(d)
                          THEN seen \cup {"ProfileBetweenDelete"} ELSE seen
    /\ UNCHANGED <<users, students, nextOid, now, last, registered, tried,
                   born, orphaned>>

\* --------------------------------------------------- GET /api/students
StartList(r, track) ==
    Begin(r, [Idle EXCEPT !.op = "list", !.pc = "listFind"], track)

\* the orders in which a find() may enumerate a collection
Enumerations(coll) ==
    { f \in [1..Cardinality(coll) -> coll] :
        \A i, j \in 1..Cardinality(coll) : i # j => f[i] # f[j] }

\* .sort({ createdAt: -1 }): descending, equal keys in any order
SortedByCreatedAtDesc(coll) ==
    { f \in Enumerations(coll) :
        \A i, j \in 1..Len(f) : i < j => f[i].createdAt >= f[j].createdAt }

StudentsOk(list) == [Response(200, TRUE, "") EXCEPT !.students = list]

ListFind(r) ==
    /\ req[r].pc = "listFind"
    /\ \E list \in SortedByCreatedAtDesc(students) :
          Finish(r, "OK", StudentsOk(list))
    /\ UNCHANGED <<users, students, nextOid, now, last, registered, tried,
                   born, orphaned, seen>>

\* ---------------------------------------------- PUT /api/student/:userId
StartUpdate(r, id, body, track) ==
    Begin(r, [Idle EXCEPT !.op = "update", !.pc = "updateFind",
                          !.id = id, !.body = body], track)

\* { ...req.body, updatedAt: new Date() } applied to a document: strict
\* mode keeps only the schema's paths; the spread comes first, so the
\* handler's updatedAt wins over one in the body
ApplyUpdate(d, body, t) ==
    [k \in DOMAIN d |->
        IF k = "updatedAt" THEN t
        ELSE IF k \in SchemaPaths /\ Has(body, k) THEN body.vals[k]
        ELSE d[k]]

UpdateFind(r, maxT) ==
    /\ req[r].pc = "updateFind"
    /\ IF StudentsByUserId(req[r].id) = {}
       THEN /\ Finish(r, "NotFound", StudentNotFound)
            /\ UNCHANGED <<students, now>>
       ELSE \E d \in StudentsByUserId(req[r].id) : \E t \in now..maxT :
               LET d2 == ApplyUpdate(d, req[r].body, t) IN
               /\ students' = (students \ {d}) \cup {d2}
               /\ now' = t
               /\ Finish(r, "OK", StudentOk(d2))
    /\ UNCHANGED <<users, nextOid, last, registered, tried, born, orphaned,
                   seen>>

\* ----------------------------------------- DELETE /api/student/:studentId
StartDelete(r, id, track) ==
    Begin(r, [Idle EXCEPT !.op = "delete", !.pc = "deleteFind", !.id = id],
          track)

DeleteFind(r) ==
    /\ req[r].pc = "deleteFind"
    /\ IF StudentsById(req[r].id) = {}
       THEN Finish(r, "NotFound", StudentNotFound)
       ELSE \E d \in StudentsById(req[r].id) :
               req' = [req EXCEPT ![r].pc = "deleteUser", ![r].student = d]
    /\ UNCHANGED <<users, students, nextOid, now, last, registered, tried,
                   born, orphaned, seen>>

\* Model.findByIdAndDelete(id): removes the document if there is one
DeleteById(coll, id) == { d \in coll : d._id # id }

\* (mutant) the account and the profile are removed in one store operation
DeleteUserAndStudent(r) ==
    /\ req[r].pc = "deleteUser"
    /\ users' = DeleteById(users, req[r].student.userId)
    /\ students' = DeleteById(students, req[r].id)
    /\ born' = { b \in born : b[1] # req[r].id }
    /\ registered' =
         { g \in registered : g.userId # req[r].student.userId }
    /\ req' = [req EXCEPT ![r].pc = "deleteStudent"]
    /\ UNCHANGED <<nextOid, now, last, tried, orphaned, seen>>

\* (mutant) the account is left in place before the profile is deleted
DeleteUserKeepsAccount(r) ==
    /\ req[r].pc = "deleteUser"
    /\ req' = [req EXCEPT ![r].pc = "deleteStudent"]
    /\ UNCHANGED <<users, students, nextOid, now, last, registered, tried,
                   born, orphaned, seen>>

DeleteUser(r) ==
    /\ req[r].pc = "deleteUser"
    /\ users' = DeleteById(users, req[r].student.userId)
    /\ registered' =
         { g \in registered : g.userId # req[r].student.userId }
    /\ req' = [req EXCEPT ![r].pc = "deleteStudent"]
    /\ UNCHANGED <<students, nextOid, now, last, tried, born, orphaned, seen>>

DeleteStudent(r) ==
    /\ req[r].pc = "deleteStudent"
    /\ students' = DeleteById(students, req[r].id)
    /\ born' = { b \in born : b[1] # req[r].id }
    /\ Finish(r, "OK", Response(200, TRUE, ""))
    /\ UNCHANGED <<users, nextOid, now, last, registered, tried, orphaned,
                   seen>>

\* --------------------------------------------- POST /api/reset-password
StartReset(r, e, p, track) ==
    Begin(r, [Idle EXCEPT !.op = "reset", !.pc = "resetFind",
                          !.email = e, !.password = p], track)

EmailNotFound == Response(404, FALSE, "Email not found")

ResetFailed == Response(500, FALSE, "Password reset failed")

ResetFind(r) ==
    /\ req[r].pc = "resetFind"
    /\ IF UsersByEmail(req[r].email) = {}
       THEN Finish(r, "EmailNotFound", EmailNotFound)
       ELSE \E u \in UsersByEmail(req[r].email) :
               req' = [req EXCEPT ![r].pc = "resetSave", ![r].user = u]
    /\ UNCHANGED <<users, students, nextOid, now, last, registered, tried,
                   born, orphaned, seen>>

\* user.save() after user.password = hash: writes the changed path of the
\* document with that _id
SavePassword(coll, id, hash) ==
    { IF u._id = id THEN [u EXCEPT !.password = hash] ELSE u : u \in coll }

\* (mutant) the new hash is computed but the document is not saved
ResetSaveNoWrite(r, salts) ==
    /\ req[r].pc = "resetSave"
    /\ Finish(r, "OK", Response(200, TRUE, ""))
    /\ UNCHANGED <<users, students, nextOid, now, last, registered, tried,
                   born, orphaned, seen>>

\* (mutant) the new hash is written to every account (an update with an
\* empty filter instead of a save of the found document)
ResetSaveEveryone(r, salts) ==
    /\ req[r].pc = "resetSave"
    /\ \E salt \in salts :
          users' = { [u EXCEPT !.password =
                         BcryptHash(req[r].password, BcryptRounds, salt)] :
                     u \in users }
    /\ registered' = {}
    /\ Finish(r, "OK", Response(200, TRUE, ""))
    /\ UNCHANGED <<students, nextOid, now, last, tried, born, orphaned, seen>>

ResetSave(r, salts) ==
    /\ req[r].pc = "resetSave"
    /\ IF \A u \in users : u._id # req[r].user._id
       THEN \* the document is gone: save() rejects, caught at line 213
            /\ Finish(r, "PersistenceFailure", ResetFailed)
            /\ UNCHANGED <<users, registered>>
       ELSE \E salt \in salts :
            /\ users' = SavePassword(users, req[r].user._id,
                          BcryptHash(req[r].password, BcryptRounds, salt))
            /\ registered' =
                 { g \in registered : g.userId # req[r].user._id }
            /\ Finish(r, "OK", Response(200, TRUE, ""))
    /\ UNCHANGED <<students, nextOid, now, last, tried, born, orphaned, seen>>

\* ------------------------------------------------------ initializeAdmin
StartAdmin(r, track) ==
    /\ OidsLeft(1)
    /\ Begin(r, [Idle EXCEPT !.op = "admin", !.pc = "adminFind"], track)

\* (mutant) the admin account is created without looking for one
AdminFindNoCheck(r) ==
    /\ req[r].pc = "adminFind"
    /\ req' = [req EXCEPT ![r].pc = "adminCreate"]
    /\ UNCHANGED <<users, students, nextOid, now, last, registered, tried,
                   born, orphaned, seen>>

AdminFind(r) ==
    /\ req[r].pc = "adminFind"
    /\ IF UsersByEmail(AdminEmail) # {}
       THEN Finish(r, "Exists", NoResp)
       ELSE req' = [req EXCEPT ![r].pc = "adminCreate"]
    /\ UNCHANGED <<users, students, nextOid, now, last, registered, tried,
                   born, orphaned, seen>>

AdminCreate(r, salts) ==
    /\ req[r].pc = "adminCreate"
    /\ \E salt \in salts :
          users' = UserCreate(users,
                     UserDoc(nextOid, AdminEmail,
                             BcryptHash(AdminPassword, BcryptRounds, salt),
                             "admin"))
    /\ nextOid' = nextOid + 1
    /\ Finish(r, "OK", NoResp)
    /\ UNCHANGED <<students, now, last, registered, tried, born, orphaned,
                   seen>>

\* ------------------------------------------------------- store failures
\* what each handler's catch block answers
CatchResponse(op) ==
    CASE op = "login"    -> Response(500, FALSE, "Login failed")
      [] op = "register" -> RegistrationFailed
      [] op = "get"      -> Response(500, FALSE, "Failed to get profile")
      [] op = "list"     -> Response(500, FALSE, "Failed to get students")
      [] op = "update"   -> Response(500, FALSE, "Update failed")
      [] op = "delete"   -> Response(500, FALSE, "Delete failed")
      [] op = "reset"    -> ResetFailed
      [] OTHER           -> NoResp

StorePcs == {"loginFind", "registerFind", "registerCreateUser",
             "registerCreateStudent", "getFind", "listFind", "updateFind",
             "deleteFind", "deleteUser", "deleteStudent", "resetFind",
             "resetSave", "adminFind", "adminCreate"}

\* the store call the handler is waiting on rejects
StoreFails(r) ==
    /\ req[r].pc \in StorePcs
    /\ Finish(r, "PersistenceFailure", CatchResponse(req[r].op))
    /\ tried' = IF req[r].op = "register" THEN tried \cup {req[r].email}
                ELSE tried
    /\ orphaned' = IF req[r].pc = "registerCreateStudent"
                   THEN orphaned \cup {Orphan(req[r])} ELSE orphaned
    /\ UNCHANGED <<users, students, nextOid, now, last, registered, born,
                   seen>>

\* ----------------------------------------------------- specifications
\* :userId and :studentId of the requests: the ids that match something and
\* one that matches nothing
NoOid == 0

AccountIds ==
    {u._id : u \in users} \cup {d.userId : d \in students} \cup {NoOid}

RecordIds == {d._id : d \in students} \cup {NoOid}

\* A workload: the inputs the requests are drawn from, the salts bcrypt
\* draws, the largest clock value, and the operations whose outcome `last`
\* remembers
Arrive(r, W) ==
    \/ \E e \in W.emails, p \in W.passwords : StartLogin(r, e, p, W.track)
    \/ \E e \in W.emails, p \in W.passwords, sd \in W.profiles :
          StartRegister(r, e, p, sd, W.track)
    \/ \E id \in AccountIds : StartGet(r, id, W.track)
    \/ StartList(r, W.track)
    \/ \E id \in AccountIds, b \in W.bodies :
          StartUpdate(r, id, b, W.track)
    \/ \E id \in RecordIds : StartDelete(r, id, W.track)
    \/ \E e \in W.emails, p \in W.passwords : StartReset(r, e, p, W.track)
    \/ StartAdmin(r, W.track)

Step(r, W) ==
    \/ LoginFind(r) \/ LoginCompare(r)
    \/ RegisterFind(r) \/ RegisterCreateUser(r, W.salts)
    \/ RegisterCreateStudent(r, W.maxTime)
    \/ GetFind(r) \/ ListFind(r) \/ UpdateFind(r, W.maxTime)
    \/ DeleteFind(r) \/ DeleteUser(r) \/ DeleteStudent(r)
    \/ ResetFind(r) \/ ResetSave(r, W.salts)
    \/ AdminFind(r) \/ AdminCreate(r, W.salts)

\* accounts and credentials: every password and salt, updates that rewrite
\* no stored field, a clock that stands still
AuthLoad ==
    [emails |-> Emails, passwords |-> Passwords,
     profiles |-> {FullProfile}, bodies |-> {With(NoBody, "nickname", "N")},
     salts |-> Salts, maxTime |-> 0,
     track |-> {"login", "reset", "delete"}]

\* profiles: the valid profile inputs, updates of their fields, one
\* password and salt, a clock that advances
ProfileLoad ==
    [emails |-> Emails, passwords |-> {"p1"},
     profiles |-> ValidProfiles, bodies |-> FieldBodies,
     salts |-> {1}, maxTime |-> MaxTime, track |-> {}]

\* one request at a time, the store never fails
Next ==
    \/ Quiet /\ Arrive(1, AuthLoad)
    \/ Step(1, AuthLoad)

Spec == Init /\ [][Next]_vars

NextProfile ==
    \/ Quiet /\ Arrive(1, ProfileLoad)
    \/ Step(1, ProfileLoad)

SpecProfile == Init /\ [][NextProfile]_vars

\* the link of a profile to its account: updates that rewrite userId, one
\* password and salt, a clock that stands still
LinkLoad ==
    [emails |-> Emails, passwords |-> {"p1"},
     profiles |-> {FullProfile}, bodies |-> LinkBodies,
     salts |-> {1}, maxTime |-> 0, track |-> {"delete"}]

NextLink ==
    \/ Quiet /\ Arrive(1, LinkLoad)
    \/ Step(1, LinkLoad)

SpecLink == Init /\ [][NextLink]_vars

\* store failures: complete and incomplete profile inputs, one password and
\* salt, a clock that stands still
FaultLoad ==
    [emails |-> Emails, passwords |-> {"p1"},
     profiles |-> {FullProfile} \cup InvalidProfiles, bodies |-> LinkBodies,
     salts |-> {1}, maxTime |-> 0, track |-> {"register", "delete"}]

\* one request at a time, store calls may fail
NextFault ==
    \/ Quiet /\ Arrive(1, FaultLoad)
    \/ Step(1, FaultLoad)
    \/ StoreFails(1)

SpecFault == Init /\ [][NextFault]_vars

\* concurrent requests: one password and salt, a clock that stands still
ConcLoad ==
    [emails |-> Emails, passwords |-> {"p1"},
     profiles |-> {FullProfile}, bodies |-> {},
     salts |-> {1}, maxTime |-> 0, track |-> {}]

\* the requests that create and remove accounts, and those that observe
\* them
ArriveConc(r, W) ==
    \/ \E e \in W.emails, p \in W.passwords : StartLogin(r, e, p, W.track)
    \/ \E e \in W.emails, p \in W.passwords, sd \in W.profiles :
          StartRegister(r, e, p, sd, W.track)
    \/ \E id \in AccountIds : StartGet(r, id, W.track)
    \/ \E id \in RecordIds : StartDelete(r, id, W.track)
    \/ StartAdmin(r, W.track)

StepConc(r, W) ==
    \/ LoginFind(r) \/ LoginCompare(r)
    \/ RegisterFind(r) \/ RegisterCreateUser(r, W.salts)
    \/ RegisterCreateStudent(r, W.maxTime)
    \/ GetFind(r)
    \/ DeleteFind(r) \/ DeleteUser(r) \/ DeleteStudent(r)
    \/ AdminFind(r) \/ AdminCreate(r, W.salts)

\* requests interleave at their awaits
NextConc ==
    \/ \E r \in Slots : ArriveConc(r, ConcLoad)
    \/ \E r \in Slots : StepConc(r, ConcLoad)

SpecConc == Init /\ [][NextConc]_vars

\* one request that writes (register, delete) in slot 1, and requests that
\* read (login, get) in the other slots, interleaved at its awaits; one
\* email, password and salt, a clock that stands still
WindowLoad ==
    [emails |-> {"a@x.com"}, passwords |-> {"p1"},
     profiles |-> {FullProfile}, bodies |-> {},
     salts |-> {1}, maxTime |-> 0, track |-> {}]

ArriveWriter(r, W) ==
    \/ \E e \in W.emails, p \in W.passwords, sd \in W.profiles :
          StartRegister(r, e, p, sd, W.track)
    \/ \E id \in RecordIds : StartDelete(r, id, W.track)

ArriveReader(r, W) ==
    \/ \E e \in W.emails, p \in W.passwords : StartLogin(r, e, p, W.track)
    \/ \E id \in AccountIds : StartGet(r, id, W.track)

StepWindow(r, W) ==
    \/ LoginFind(r) \/ LoginCompare(r)
    \/ RegisterFind(r) \/ RegisterCreateUser(r, W.salts)
    \/ RegisterCreateStudent(r, W.maxTime)
    \/ GetFind(r)
    \/ DeleteFind(r) \/ DeleteUser(r) \/ DeleteStudent(r)

NextWindow ==
    \/ ArriveWriter(1, WindowLoad)
    \/ \E r \in Slots \ {1} : ArriveReader(r, WindowLoad)
    \/ \E r \in Slots : StepWindow(r, WindowLoad)

SpecWindow == Init /\ [][NextWindow]_vars

\* registers one at a time, over every skills string; one email that a
\* delete frees again
SkillsLoad ==
    [emails |-> {"a@x.com"}, passwords |-> {"p1"},
     profiles |-> SkillProfiles, bodies |-> {},
     salts |-> {1}, maxTime |-> 0, track |-> {}]

ArriveSkills(r, W) ==
    \/ \E e \in W.emails, p \in W.passwords, sd \in W.profiles :
          StartRegister(r, e, p, sd, W.track)
    \/ \E id \in RecordIds \ {NoOid} : StartDelete(r, id, W.track)

StepSkills(r, W) ==
    \/ RegisterFind(r) \/ RegisterCreateUser(r, W.salts)
    \/ RegisterCreateStudent(r, W.maxTime)
    \/ DeleteFind(r) \/ DeleteUser(r) \/ DeleteStudent(r)

NextSkills ==
    \/ Quiet /\ ArriveSkills(1, SkillsLoad)
    \/ StepSkills(1, SkillsLoad)

SpecSkills == Init /\ [][NextSkills]_vars

\* ================================================================ claims
Done(r, op) == req[r].op = op /\ req[r].pc = "done"

\* ---------------------------------------------------------------- C1
\* C1: for an account made by a successful register and neither reset nor
\* deleted since, login with the registration email and password succeeds,
\* and its token carries the id and role (student) that the register token
\* carried, which are those of the stored account.
C1_LoginAfterRegister ==
    \A r \in Slots : \A g \in registered :
        ( /\ Done(r, "login")
          /\ req[r].email = g.email
          /\ req[r].password = g.password )
        => /\ req[r].resp.status = 200
           /\ req[r].resp.success
           /\ req[r].resp.token.payload.userId = g.userId
           /\ req[r].resp.token.payload.role = g.role
           /\ g.role = "student"
           /\ \E u \in users :
                 u._id = g.userId /\ u.email = g.email /\ u.role = g.role

C1_Witness ==
    \E r \in Slots : \E g \in registered :
        /\ Done(r, "login")
        /\ req[r].email = g.email /\ req[r].password = g.password
        /\ req[r].resp.status = 200
        /\ req[r].resp.token.payload.userId = g.userId
        /\ Cardinality(users) > 1

\* ---------------------------------------------------------------- C2
\* a finished login that was refused, and which of the two cases it was
NoAccountFor(q) == q.op = "login" /\ q.cause = "NoSuchEmail"

WrongPasswordFor(q) == q.op = "login" /\ q.cause = "WrongPassword"

Acts(r) == req'[r] # req[r]

RejectsAsTaken(r) ==
    /\ req'[r].pc = "done"
    /\ req'[r].cause = "EmailTaken"
    /\ req'[r].resp = EmailTaken
    /\ users' = users
    /\ students' = students

\* C3 as stated: a register with an email for which an earlier register
\* call has finished fails with EmailTaken and leaves both stores as they
\* were.
C3_SecondRegisterFails ==
    [][ \A r \in Slots :
          ( /\ req[r].pc = "registerFind"
            /\ req[r].email \in tried
            /\ Acts(r) )
          => RejectsAsTaken(r) ]_vars

\* C3 (amended): a register with an email for which an earlier register
\* call has finished, and for which an Account is still stored (no delete
\* has removed it since), fails with EmailTaken and leaves both stores as
\* they were.
C3_SecondRegisterFailsWhileStored ==
    [][ \A r \in Slots :
          ( /\ req[r].pc = "registerFind"
            /\ req[r].email \in tried
            /\ UsersByEmail(req[r].email) # {}
            /\ Acts(r) )
          => RejectsAsTaken(r) ]_vars

C3_Witness ==
    \E r \in Slots :
        /\ Done(r, "register")
        /\ req[r].cause = "EmailTaken"
        /\ \E g \in registered : g.email = req[r].email
        /\ UsersByEmail(req[r].email) # {}
        /\ students # {}

\* ---------------------------------------------------------------- C4
\* C4: no two Accounts have the same email, in every reachable state, the
\* states between the store steps of concurrent register requests and of
\* the admin bootstrap included.
C4_EmailUnique ==
    \A u1, u2 \in users : u1.email = u2.email => u1 = u2

\* ---------------------------------------------------------------- C5
\* the request before this one was a successful reset for email e
AfterReset(r) ==
    /\ Done(r, "login")
    /\ last.op = "reset" /\ last.cause = "OK"
    /\ last.email = req[r].email

\* C5 as stated: right after a successful resetPassword(email, newPassword),
\* login(email, newPassword) succeeds, and login with a password that was
\* valid before the reset fails with InvalidCredentials.
C5_ResetThenLogin ==
    \A r \in Slots :
        AfterReset(r)
        => /\ req[r].password = last.password => req[r].resp.status = 200
           /\ BcryptCompare(req[r].password, last.hash)
              => req[r].resp = InvalidCredentials

\* C5 (amended): right after a successful resetPassword(email, newPassword),
\* login(email, newPassword) succeeds, and login with a password that was
\* valid before the reset and is not newPassword fails with
\* InvalidCredentials.
C5_ResetThenLoginUnlessSame ==
    \A r \in Slots :
        AfterReset(r)
        => /\ req[r].password = last.password
              => /\ req[r].resp.status = 200
                 /\ req[r].resp.success
                 /\ req[r].resp.user.email = req[r].email
           /\ ( /\ BcryptCompare(req[r].password, last.hash)
                /\ req[r].password # last.password )
              => req[r].resp = InvalidCredentials

C5_Witness ==
    \E r \in Slots :
        /\ AfterReset(r)
        /\ req[r].password = last.password
        /\ ~BcryptCompare(req[r].password, last.hash)
        /\ req[r].resp.status = 200

\* ---------------------------------------------------------------- C6
\* the update of slot r is applied to document d and answers d2
Updates(r, d, d2) ==
    /\ req[r].pc = "updateFind"
    /\ Acts(r)
    /\ req'[r].cause = "OK"
    /\ d \in StudentsByUserId(req[r].id)
    /\ d2 = req'[r].resp.student
    /\ d2._id = d._id

\* C6: an update of an existing profile changes only the fields named in
\* its input and updatedAt: the fields it does not name keep their values,
\* every other profile and every Account is unchanged, and afterwards
\* updatedAt is strictly later than createdAt.  (Checked for updates whose
\* clock reading is later than the stored createdAt, so that two readings
\* of the same millisecond are not what refutes it.)
C6_UpdateFrame ==
    [][ \A r \in Slots :
          ( /\ req[r].pc = "updateFind"
            /\ Acts(r)
            /\ req'[r].cause = "OK"
            /\ \A d \in StudentsByUserId(req[r].id) : now' > d.createdAt )
          => \E d \in students :
                LET d2 == req'[r].resp.student IN
                /\ Updates(r, d, d2)
                /\ \A k \in DOMAIN d :
                      (~Has(req[r].body, k) /\ k # "updatedAt")
                      => d2[k] = d[k]
                /\ students' = (students \ {d}) \cup {d2}
                /\ users' = users
                /\ d2.updatedAt > d2.createdAt ]_vars

\* ---------------------------------------------------------------- C7
DeletedBoth(r) ==
    /\ StudentsById(req[r].id) = {}
    /\ \A u \in users : u._id # req[r].student.userId

\* C7: after a delete that succeeded, the profile and the Account its
\* accountId refers to are in neither store, and a getByAccountId for that
\* accountId made next answers NotFound; a delete of an identifier that
\* matches no profile answers NotFound and changes neither store.
C7_DeleteCascade ==
    [][ \A r \in Slots :
          /\ (Done(r, "delete")' /\ req'[r].cause = "OK") => DeletedBoth(r)'
          /\ ( /\ req[r].pc = "getFind" /\ Acts(r)
               /\ last.op = "delete" /\ last.cause = "OK"
               /\ req[r].id = last.userId )
             => req'[r].resp = StudentNotFound
          /\ ( /\ req[r].pc = "deleteFind" /\ Acts(r)
               /\ StudentsById(req[r].id) = {} )
             => /\ req'[r].resp = StudentNotFound
                /\ users' = users /\ students' = students ]_vars

\* ---------------------------------------------------------------- C8
SameAnswer(q, resp) ==
    /\ q.status = resp.status
    /\ q.success = resp.success
    /\ q.error = resp.error

\* C8: a register that fails for a missing required profile field
\* (ValidationFailure) never gets the response that a register failing for
\* the store (PersistenceFailure) or for a taken email (EmailTaken) gets.
C8_ValidationDistinct ==
    \A r \in Slots :
        ( /\ Done(r, "register") /\ last.op = "register"
          /\ \/ /\ req[r].cause = "ValidationFailure"
                /\ last.cause \in {"PersistenceFailure", "EmailTaken"}
             \/ /\ last.cause = "ValidationFailure"
                /\ req[r].cause \in {"PersistenceFailure", "EmailTaken"} )
        => ~SameAnswer(last, req[r].resp)

\* ---------------------------------------------------------------- C9
\* C9: run after run, one at a time, initializeAdmin leaves at most one
\* Account with the admin email, and a run that finds one changes nothing.
C9_BootstrapIdempotent ==
    [][ \A r \in Slots :
          /\ Done(r, "admin")' => Cardinality(UsersByEmail(AdminEmail))' <= 1
          /\ ( /\ req[r].pc = "adminFind" /\ Acts(r)
               /\ UsersByEmail(AdminEmail) # {} )
             => /\ req'[r].pc = "done"
                /\ users' = users
                /\ students' = students
                /\ nextOid' = nextOid ]_vars

C9_Witness ==
    \E r \in Slots :
        /\ Done(r, "admin")
        /\ req[r].cause = "Exists"
        /\ \E u \in users : u.email = AdminEmail /\ u.role = "admin"
        /\ Cardinality(UsersByEmail(AdminEmail)) = 1

\* --------------------------------------------------------------- C10
BornAt(d) == CHOOSE t \in 0..MaxTime : <<d._id, t>> \in born

\* C10: listAll returns every stored profile exactly once, and of any two
\* profiles the one created later comes first, whatever registers, updates
\* and deletes came before.
C10_NewestFirst ==
    \A r \in Slots :
        Done(r, "list")
        => LET list == req[r].resp.students IN
           /\ Len(list) = Cardinality(students)
           /\ \A d \in students : \E i \in 1..Len(list) : list[i] = d
           /\ \A i, j \in 1..Len(list) :
                 BornAt(list[i]) > BornAt(list[j]) => i < j

\* --------------------------------------------------------------- C11
\* C11: createdAt is immutable: no step changes the createdAt of a profile
\* that is stored before and after it.
C11_CreatedAtImmutable ==
    [][ \A d \in students : \A d2 \in students' :
          d2._id = d._id => d2.createdAt = d.createdAt ]_vars

\* --------------------------------------------------------------- C12
\* C12: in every reachable state a stored profile has a project only if its
\* department is "IT", whatever registers and updates came before.
C12_ProjectOnlyIfIT ==
    \A d \in students : d.project # Undefined => d.department = "IT"

\* --------------------------------------------------------------- C13
\* C13: in every reachable state no two stored profiles have the same
\* accountId (userId).
C13_OneProfilePerAccount ==
    \A d1, d2 \in students : d1.userId = d2.userId => d1 = d2

\* --------------------------------------------------------------- C14
DeleteFailed == Response(500, FALSE, "Delete failed")

\* C14: delete writes the Account store first, then the profile store: the
\* step of a delete that removes an Account leaves the found profile
\* stored, and the step that removes the profile finds its Account gone.
\* When the profile deletion fails after the Account deletion returned, the
\* handler answers the failure and stops, both stores stay as they are,
\* and the profile is stored with an accountId that matches no Account.
C14_DeleteOrder ==
    [][ \A r \in Slots :
          /\ ( /\ req[r].op = "delete" /\ Acts(r) /\ users' # users )
             => /\ students' = students
                /\ req[r].student \in students
                /\ users' = users \ { u \in users :
                                        u._id = req[r].student.userId }
          /\ ( /\ req[r].op = "delete" /\ Acts(r) /\ students' # students )
             => /\ users' = users
                /\ \A u \in users : u._id # req[r].student.userId
                /\ students' = students \ StudentsById(req[r].id)
          /\ ( /\ req[r].pc = "deleteStudent" /\ Acts(r)
               /\ req'[r].cause = "PersistenceFailure" )
             => /\ req'[r].pc = "done"
                /\ req'[r].resp = DeleteFailed
                /\ ~req'[r].resp.success
                /\ users' = users /\ students' = students
                /\ \E d \in students' :
                      /\ d._id = req[r].id
                      /\ \A u \in users' : u._id # d.userId ]_vars

C14_Witness ==
    \E r \in Slots :
        /\ Done(r, "delete")
        /\ req[r].cause = "PersistenceFailure"
        /\ req[r].resp = DeleteFailed
        /\ last.op = "register" /\ last.cause = "OK"
        /\ req[r].student \in students
        /\ \A u \in users : u._id # req[r].student.userId

\* --------------------------------------------------------------- C17
\* C17: a resetPassword whose email matches no Account answers
\* EmailNotFound and changes neither store.  One whose email matches an
\* Account is not refused, whatever the stored hash is (the request carries
\* the email and the new password, nothing of the old one): it answers
\* success, the matching Account gets a hash of the new password and keeps
\* its identifier, email and role, and every other Account and every
\* profile is as before.
C17_ResetFrame ==
    [][ \A r \in Slots :
          /\ ( /\ req[r].pc = "resetFind" /\ Acts(r) )
             => /\ users' = users /\ students' = students
                /\ UsersByEmail(req[r].email) = {}
                   => /\ req'[r].pc = "done"
                      /\ req'[r].resp = EmailNotFound
                /\ UsersByEmail(req[r].email) # {}
                   => /\ req'[r].pc # "done"
                      /\ req'[r].user \in UsersByEmail(req[r].email)
          /\ ( /\ req[r].pc = "resetSave" /\ Acts(r) )
             => /\ req'[r].pc = "done"
                /\ req'[r].resp = Response(200, TRUE, "")
                /\ students' = students
                /\ \E u \in UsersByEmail(req[r].email) : \E u2 \in users' :
                      /\ u2._id = u._id
                      /\ u2.email = u.email
                      /\ u2.role = u.role
                      /\ BcryptCompare(req[r].password, u2.password)
                      /\ users' \ {u2} = users \ {u} ]_vars

C17_Witness ==
    \E r \in Slots :
        /\ Done(r, "reset")
        /\ req[r].cause = "OK"
        /\ ~BcryptCompare(req[r].password, req[r].user.password)
        /\ \E u \in users :
              /\ u._id = req[r].user._id
              /\ BcryptCompare(req[r].password, u.password)
        /\ Cardinality(users) > 1
        /\ students # {}

\* --------------------------------------------------------------- C15
\* the register of slot r ends in failure after its account was created
FailsAfterCreate(r) ==
    /\ req[r].pc = "registerCreateStudent"
    /\ Acts(r)
    /\ req'[r].cause # "OK"

\* C15: when register has created the Account and creating the profile
\* fails, the answer is a failure without a token, the Account is stored
\* and no profile refers to it, a getByAccountId for it made next answers
\* NotFound; the Account stays in the store from then on, and every later
\* register with that email whose lookup the store answers fails with
\* EmailTaken and changes neither store.
C15_OrphanBlocksRegister ==
    [][ \A r \in Slots :
          /\ \A o \in orphaned : \A u \in UsersByEmail(o.email) :
                u._id = o.userId => u \in users'
          /\ FailsAfterCreate(r)
             => /\ req'[r].pc = "done"
                /\ ~req'[r].resp.success
                /\ req'[r].resp.token = NoToken
                /\ req[r].user \in users'
                /\ StudentsByUserId(req[r].user._id)' = {}
          /\ ( /\ req[r].pc = "getFind" /\ Acts(r)
               /\ req'[r].cause # "PersistenceFailure"
               /\ last.op = "register" /\ ~last.success
               /\ last.account # 0
               /\ req[r].id = last.account )
             => req'[r].resp = StudentNotFound
          /\ ( /\ req[r].pc = "registerFind" /\ Acts(r)
               /\ req'[r].cause # "PersistenceFailure"
               /\ \E o \in orphaned : o.email = req[r].email )
             => RejectsAsTaken(r) ]_vars

\* --------------------------------------------------------------- C16
\* an Account for which no register created a profile: the bootstrap admin,
\* or one whose register failed after creating it
OwnsNoProfile(u) ==
    \/ u.role = "admin"
    \/ \E o \in orphaned : o.userId = u._id

\* C16: an Account that owns no profile created for it at registration (the
\* bootstrap admin in particular) is never removed: once stored it is
\* stored after every step.
C16_AccountsStay ==
    [][ \A u \in users :
          OwnsNoProfile(u) => \E u2 \in users' : u2._id = u._id ]_vars

\* --------------------------------------------------------------- C18
\* some delete is between its two writes for the profile of account id
DeletingProfileOf(id) ==
    \E s \in Slots :
        req[s].pc = "deleteStudent" /\ req[s].student.userId = id

\* C18: the states between the two store writes of register and of delete
\* are seen by the requests that run meanwhile.  While a register has
\* created its Account and not yet the profile, a login with that Account's
\* credentials succeeds and a getByAccountId for it answers NotFound; while
\* a delete has removed the Account and not yet the profile, a
\* getByAccountId for that Account answers the profile, whose Account is
\* not stored.
C18_WindowsObservable ==
    [][ \A r \in Slots :
          /\ ( /\ req[r].pc = "loginCompare" /\ Acts(r)
               /\ BetweenRegister(req[r].user._id)
               /\ BcryptCompare(req[r].password, req[r].user.password) )
             => /\ req'[r].resp.status = 200
                /\ req'[r].resp.token.payload.userId = req[r].user._id
                /\ StudentsByUserId(req[r].user._id) = {}
          /\ ( /\ req[r].pc = "getFind" /\ Acts(r)
               /\ BetweenRegister(req[r].id) )
             => /\ req'[r].resp = StudentNotFound
                /\ \E u \in users : u._id = req[r].id
          /\ ( /\ req[r].pc = "getFind" /\ Acts(r)
               /\ DeletingProfileOf(req[r].id) )
             => /\ req'[r].resp.status = 200
                /\ req'[r].resp.student.userId = req[r].id
                /\ req'[r].resp.student \in students
                /\ \A u \in users : u._id # req[r].id ]_vars

\* both windows have been observed in one run, and the one of a delete is
\* open with its observer's answer at hand
C18_Witness ==
    /\ {"LoginBetweenRegister", "NotFoundBetweenRegister"} \subseteq seen
    /\ "ProfileBetweenDelete" \in seen
    /\ \E r, s \in Slots :
          /\ req[s].pc = "deleteStudent"
          /\ Done(r, "get")
          /\ req[r].resp.student = req[s].student
          /\ req[r].resp.student \in students
          /\ \A u \in users : u._id # req[r].resp.student.userId

\* --------------------------------------------------------------- C19
\* the comma-separated fields of s: the maximal runs <<a, b>> of positions
\* without a comma (b = a - 1 for an empty field)
Fields(s) ==
    { f \in (1..(Len(s) + 1)) \X (0..Len(s)) :
        /\ f[1] <= f[2] + 1
        /\ f[1] = 1 \/ s[f[1] - 1] = ","
        /\ f[2] = Len(s) \/ s[f[2] + 1] = ","
        /\ \A k \in f[1]..f[2] : s[k] # "," }

\* the positions of field f that hold something else than white space
Inked(s, f) == { k \in f[1]..f[2] : ~IsSpace(s[k]) }

KeptFields(s) == { f \in Fields(s) : Inked(s, f) # {} }

\* a kept field without the white space around it
Core(s, f) ==
    LET lo == CHOOSE k \in Inked(s, f) : \A j \in Inked(s, f) : k <= j
        hi == CHOOSE k \in Inked(s, f) : \A j \in Inked(s, f) : k >= j
    IN  SubSeq(s, lo, hi)

\* the place of kept field f among the kept fields, in input order
Rank(s, f) == Cardinality({ g \in KeptFields(s) : g[1] <= f[1] })

\* C19: after a successful register the stored skills are the fields of
\* the comma-separated input that are not empty or blank, each without its
\* leading and trailing white space, in input order: every stored skill is
\* non-empty and neither starts nor ends with white space.
C19_SkillsParsed ==
    \A r \in Slots :
        (Done(r, "register") /\ req[r].cause = "OK")
        => \A d \in StudentsByUserId(req[r].user._id) :
              LET s == req[r].body.vals.skills IN
              /\ Len(d.skills) = Cardinality(KeptFields(s))
              /\ \A f \in KeptFields(s) : d.skills[Rank(s, f)] = Core(s, f)
              /\ \A i \in 1..Len(d.skills) :
                    /\ d.skills[i] # <<>>
                    /\ ~IsSpace(Head(d.skills[i]))
                    /\ ~IsSpace(d.skills[i][Len(d.skills[i])])

\* "go, rust, c" is stored as ["go", "rust", "c"]
C19_Witness ==
    \E r \in Slots :
        /\ Done(r, "register") /\ req[r].cause = "OK"
        /\ req[r].body.vals.skills = SkillsExample
        /\ \E d \in StudentsByUserId(req[r].user._id) :
              d.skills = << <<"g", "o">>, <<"r", "u", "s", "t">>, <<"c">> >>

====
